---------------------------- MODULE Spec2Model ----------------------------
(***************************************************************************)
(* A model of PapyrusPal's syntax-highlighting core:                       *)
(*   - SyntaxHighlighter (syntax_highlighting/syntax_highlighter.py):      *)
(*     an ordered rule list, a format table and highlightBlock;            *)
(*   - SourceCodeTextBox (widgets/source_code_editor/                      *)
(*     source_code_textbox.py): set_theme, configure_papyrus_highlighting  *)
(*     and configure_custom_highlighting;                                  *)
(*   - EditorWidget (windows/main_window.py): the two combo-box handlers;  *)
(* and of fetch_with_backoff (get_repos.py), the retry loop of the script  *)
(* that lists the repositories.                                            *)
(* A line of text is a sequence of one-character strings; offsets are      *)
(* 0-based as in Qt, so the character at offset i is s[i + 1].             *)
(***************************************************************************)
EXTENDS Integers, Sequences, FiniteSets, TLC

VARIABLES
    current_theme,      \* SourceCodeTextBox._current_theme
    configured,         \* _papyrus_highlighting_configured (FALSE: attribute absent)
    highlighting_rules, \* SyntaxHighlighter._highlighting_rules
    formats,            \* SyntaxHighlighter._formats
    highlighting_combo, \* EditorWidget.highlighting_combo.currentText()
    text,               \* the text of the document's block
    neighbours,         \* the text of the blocks before and after it
    spans,              \* the setFormat calls of the last highlightBlock(text)
    painted,            \* the block's per-character format after those calls
    error,              \* the exception the last operation raised, or NoError
    added,              \* direct add_rule / add_format calls since the last configure_*
    mode,               \* history: which configure_* body ran last
    last,               \* history: the last operation and its arguments
    prev,               \* history: the operation before it
    themes,             \* the module-level dict THEMES of syntax_highlighter.py
    fetch               \* get_repos.py: the locals of fetch_with_backoff's call

vars == <<current_theme, configured, highlighting_rules, formats,
          highlighting_combo, text, neighbours, spans, painted, error,
          added, mode, last, prev, themes, fetch>>

---------------------------------------------------------------------------
(* Bounds of the model.                                                    *)

\* Direct add_rule / add_format calls made since the last configure_* call.
MaxAdded == 1

---------------------------------------------------------------------------
(* Python values.                                                          *)

None == "None"
NoError == "none"

\* Python truthiness of an optional string argument.
Truthy(x) == x # None /\ x # ""

\* dict.get(key, default) on a dict modelled as a function.
Get(d, key, default) == IF key \in DOMAIN d THEN d[key] ELSE default

---------------------------------------------------------------------------
(* Characters.                                                             *)

UpperCase ==
    <<"A","B","C","D","E","F","G","H","I","J","K","L","M",
      "N","O","P","Q","R","S","T","U","V","W","X","Y","Z">>
LowerCase ==
    <<"a","b","c","d","e","f","g","h","i","j","k","l","m",
      "n","o","p","q","r","s","t","u","v","w","x","y","z">>
Digits == {"0","1","2","3","4","5","6","7","8","9"}
Letters == {UpperCase[k] : k \in 1..26} \cup {LowerCase[k] : k \in 1..26}
\* \w, \s and the class [A-Za-z0-9_] of the profile's patterns
WordChars == Letters \cup Digits \cup {"_"}
SpaceChars == {" ", "\t"}
HexChars == Digits \cup {"a","b","c","d","e","f","A","B","C","D","E","F"}

\* The other case of each letter.
OtherCaseOf ==
    [c \in Letters |->
        IF \E k \in 1..26 : UpperCase[k] = c
        THEN LowerCase[CHOOSE k \in 1..26 : UpperCase[k] = c]
        ELSE UpperCase[CHOOSE k \in 1..26 : LowerCase[k] = c]]

OtherCase(c) == IF c \in Letters THEN OtherCaseOf[c] ELSE c

\* Whether character c is in class cs; under CaseInsensitiveOption (ci) a
\* letter matches when either of its cases is in the class.
InClass(c, cs, ci) == c \in cs \/ (ci /\ OtherCase(c) \in cs)

---------------------------------------------------------------------------
(* Compiled patterns: the subset of PCRE2 syntax the rules use.            *)

Chr(cs)     == [t |-> "chr", cs |-> cs]       \* a literal or a class [..]
NotChr(cs)  == [t |-> "notchr", cs |-> cs]    \* a negated class [^..]
AnyChar     == [t |-> "any"]                  \* .
Eol         == [t |-> "eol"]                  \* $
WordB       == [t |-> "wordb"]                \* \b
Cat(a, b)   == [t |-> "cat", a |-> a, b |-> b]     \* ab
Alt(a, b)   == [t |-> "alt", a |-> a, b |-> b]     \* a|b
Star(a)     == [t |-> "star", a |-> a]        \* a*  (greedy)
Lazy(a)     == [t |-> "lazy", a |-> a]        \* a*? (lazy)
Plus(a)     == Cat(a, Star(a))                \* a+
Ahead(a)    == [t |-> "ahead", a |-> a]       \* (?=a)
Behind(a)   == [t |-> "behind", a |-> a]      \* (?<=a)
BadSyntax   == [t |-> "bad"]                  \* text PCRE2 cannot parse

Lit(w)      == [t |-> "lit", w |-> w]         \* the literal word w

RECURSIVE AltOf(_)
\* w1|w2|...|wn, in this order
AltOf(ws) ==
    IF Len(ws) = 1 THEN Lit(ws[1])
    ELSE Alt(AltOf(SubSeq(ws, 1, Len(ws) \div 2)),
             AltOf(SubSeq(ws, Len(ws) \div 2 + 1, Len(ws))))

\* \b(w1|...|wn)\b
WordList(ws) == Cat(WordB, Cat(AltOf(ws), WordB))

RECURSIVE Unbounded(_)
\* whether the pattern can match strings of unlimited length
Unbounded(r) ==
    CASE r.t \in {"star", "lazy"} -> TRUE
      [] r.t \in {"cat", "alt"} -> Unbounded(r.a) \/ Unbounded(r.b)
      [] OTHER -> FALSE

RECURSIVE Compiles(_)
\* QRegularExpression.isValid(): PCRE2 compiles the pattern. A lookbehind
\* whose length is not limited is a compile error, like a syntax error.
Compiles(r) ==
    CASE r.t = "bad" -> FALSE
      [] r.t = "behind" -> Compiles(r.a) /\ ~Unbounded(r.a)
      [] r.t \in {"cat", "alt"} -> Compiles(r.a) /\ Compiles(r.b)
      [] r.t \in {"star", "lazy", "ahead"} -> Compiles(r.a)
      [] OTHER -> TRUE

---------------------------------------------------------------------------
(* Matching: PCRE2's backtracking order.                                   *)

AppendNew(q, x) == IF \E k \in 1..Len(q) : q[k] = x THEN q ELSE Append(q, x)

\* q followed by the elements of p that q does not hold yet (no list of
\* offsets holds an offset twice)
Merge(q, p) == q \o SelectSeq(p, LAMBDA e : \A k \in 1..Len(q) : q[k] # e)

IsWordAt(s, i) == i >= 1 /\ i <= Len(s) /\ s[i] \in WordChars

RECURSIVE Ends(_, _, _, _)
RECURSIVE EndsFromAll(_, _, _, _)

\* whether r matches one character and nothing else
OneChar(r) == r.t \in {"chr", "notchr", "any"}

\* How many characters in a row, from offset i on, the one-character
\* pattern r matches.
Run(r, s, i, ci) ==
    (CHOOSE k \in i..Len(s) :
        /\ k = Len(s) \/ Ends(r, s, k, ci) = <<>>
        /\ \A j \in i..(k - 1) : Ends(r, s, j, ci) # <<>>) - i
RECURSIVE StartsBehind(_, _, _, _, _)

\* The offsets at which a match of r that starts at offset i of s can end,
\* in the order in which backtracking tries them (so the head is the end of
\* the match PCRE2 reports when nothing follows r).
Ends(r, s, i, ci) ==
    CASE r.t = "chr" ->
           IF i < Len(s) /\ InClass(s[i + 1], r.cs, ci) THEN <<i + 1>> ELSE <<>>
      [] r.t = "notchr" ->
           IF i < Len(s) /\ ~InClass(s[i + 1], r.cs, ci) THEN <<i + 1>> ELSE <<>>
      [] r.t = "any" -> IF i < Len(s) THEN <<i + 1>> ELSE <<>>
      [] r.t = "eol" -> IF i = Len(s) THEN <<i>> ELSE <<>>
      [] r.t = "wordb" ->
           IF IsWordAt(s, i) # IsWordAt(s, i + 1) THEN <<i>> ELSE <<>>
      [] r.t = "lit" ->
           IF /\ i + Len(r.w) <= Len(s)
              /\ \A k \in 1..Len(r.w) : InClass(s[i + k], {r.w[k]}, ci)
           THEN <<i + Len(r.w)>> ELSE <<>>
      [] r.t = "cat" -> EndsFromAll(r.b, s, Ends(r.a, s, i, ci), ci)
      [] r.t = "alt" -> Merge(Ends(r.a, s, i, ci), Ends(r.b, s, i, ci))
      [] r.t = "star" /\ OneChar(r.a) ->
           LET Down(n) == [k \in 1..(n + 1) |-> i + n + 1 - k]
           IN  Down(Run(r.a, s, i, ci))
      [] r.t = "lazy" /\ OneChar(r.a) ->
           LET Up(n) == [k \in 1..(n + 1) |-> i + k - 1]
           IN  Up(Run(r.a, s, i, ci))
      [] r.t = "star" ->
           LET once == SelectSeq(Ends(r.a, s, i, ci), LAMBDA e : e > i)
           IN  Merge(EndsFromAll(r, s, once, ci), <<i>>)
      [] r.t = "lazy" ->
           LET once == SelectSeq(Ends(r.a, s, i, ci), LAMBDA e : e > i)
           IN  Merge(<<i>>, EndsFromAll(r, s, once, ci))
      [] r.t = "ahead" -> IF Ends(r.a, s, i, ci) # <<>> THEN <<i>> ELSE <<>>
      [] r.t = "behind" -> IF StartsBehind(r.a, s, i, i, ci) THEN <<i>> ELSE <<>>
      [] OTHER -> <<>>

\* The ends of r started at each offset of starts, in order.
EndsFromAll(r, s, starts, ci) ==
    IF starts = <<>> THEN <<>>
    ELSE IF Len(starts) = 1 THEN Ends(r, s, starts[1], ci)
    ELSE Merge(EndsFromAll(r, s, SubSeq(starts, 1, Len(starts) \div 2), ci),
               EndsFromAll(r, s, SubSeq(starts, Len(starts) \div 2 + 1,
                                        Len(starts)), ci))

\* Whether r matches some s[j..i) with j <= from.
StartsBehind(r, s, i, from, ci) ==
    LET Has(es) == \E k \in 1..Len(es) : es[k] = i
    IN  IF from < 0 THEN FALSE
        ELSE Has(Ends(r, s, from, ci)) \/ StartsBehind(r, s, i, from - 1, ci)

NoMatch == [start |-> -1, end |-> -1]

RECURSIVE FindIn(_, _, _, _, _)
\* The leftmost match that starts at one of the offsets lo..hi.
FindIn(r, s, lo, hi, ci) ==
    LET First(es) == IF es # <<>> THEN [start |-> lo, end |-> es[1]]
                     ELSE NoMatch
        Else(m) == IF m.start >= 0 THEN m
                   ELSE FindIn(r, s, (lo + hi) \div 2 + 1, hi, ci)
    IN  IF lo = hi THEN First(Ends(r, s, lo, ci))
        ELSE Else(FindIn(r, s, lo, (lo + hi) \div 2, ci))

\* pcre2_match from offset: the leftmost match that starts at offset or later.
FindFrom(r, s, offset, ci) ==
    IF offset > Len(s) THEN NoMatch ELSE FindIn(r, s, offset, Len(s), ci)

\* pcre2_match with NOTEMPTY_ATSTART | ANCHORED, then one character further:
\* what QRegularExpression does after an empty match.
FindAfterEmpty(r, s, offset, ci) ==
    LET First(ne) == IF ne # <<>> THEN [start |-> offset, end |-> ne[1]]
                     ELSE FindFrom(r, s, offset + 1, ci)
    IN  First(SelectSeq(Ends(r, s, offset, ci), LAMBDA e : e > offset))

RECURSIVE MatchesFrom(_, _, _, _, _)
\* QRegularExpressionMatchIterator: the matches from offset on.
MatchesFrom(r, s, offset, previousMatchWasEmpty, ci) ==
    LET Next(m) == IF m.start < 0 THEN <<>>
                   ELSE <<m>> \o MatchesFrom(r, s, m.end, m.end = m.start, ci)
    IN  Next(IF previousMatchWasEmpty THEN FindAfterEmpty(r, s, offset, ci)
             ELSE FindFrom(r, s, offset, ci))

---------------------------------------------------------------------------
(* The patterns of configure_papyrus_highlighting, as written there.       *)

operators == "\\(|\\)|\\[|\\]|\\,|\\=|\\+|\\-|\\*|\\/|\\%|\\.|\\!|\\>|\\<|\\||\\&"
flow_control == "\\b(if|else|elseif|endif|while|endwhile)\\b"
types == "\\b(bool|float|int|string|var)\\b"
keywords == "\\b(scriptname|extends|import|debugonly|betaonly|default|event|endevent|state|endstate|function|endfunction|global|native|struct|endstruct|property|endproperty|auto|autoreadonly|conditional|hidden|const|mandatory|group|endgroup|collapsed|collapsedonref|collapsedonbase|new|return|length)\\b"
constants == "\\b(none|parent|self|true|false)\\b"
fold_open == "\\b(if|while|function|struct|property|group|event|state)\\b"
fold_middle == "\\b(else|elseif)\\b"
fold_close == "\\b(endif|endwhile|endfunction|native|endstruct|endproperty|auto|autoreadonly|endgroup|endevent|endstate)\\b"
line_comment == ";.*$"
block_comment == ";/.*?/;"
doc_comment == "\\{.*?\\}"
numbers == "\\b(?:0x[0-9a-fA-F]+|\\d+\\.\\d*|\\d+)\\b"
strings == "\"[^\"\\\\]*(\\\\.[^\"\\\\]*)*\""
function_calls == "\\b[A-Za-z0-9_]+(?=\\s*\\()"
script_name == "(?<=scriptname\\s+)[A-Za-z0-9_]+"
property_names == "(?<=property\\s+)[A-Za-z0-9_]+"

\* the alternatives of flow_control, in pattern order
flow_control_words ==
    <<<<"i","f">>, <<"e","l","s","e">>, <<"e","l","s","e","i","f">>,
      <<"e","n","d","i","f">>, <<"w","h","i","l","e">>,
      <<"e","n","d","w","h","i","l","e">>>>

\* the alternatives of types
types_words ==
    <<<<"b","o","o","l">>, <<"f","l","o","a","t">>, <<"i","n","t">>,
      <<"s","t","r","i","n","g">>, <<"v","a","r">>>>

\* the alternatives of keywords
keywords_words ==
    <<<<"s","c","r","i","p","t","n","a","m","e">>,
      <<"e","x","t","e","n","d","s">>, <<"i","m","p","o","r","t">>,
      <<"d","e","b","u","g","o","n","l","y">>,
      <<"b","e","t","a","o","n","l","y">>, <<"d","e","f","a","u","l","t">>,
      <<"e","v","e","n","t">>, <<"e","n","d","e","v","e","n","t">>,
      <<"s","t","a","t","e">>, <<"e","n","d","s","t","a","t","e">>,
      <<"f","u","n","c","t","i","o","n">>,
      <<"e","n","d","f","u","n","c","t","i","o","n">>,
      <<"g","l","o","b","a","l">>, <<"n","a","t","i","v","e">>,
      <<"s","t","r","u","c","t">>, <<"e","n","d","s","t","r","u","c","t">>,
      <<"p","r","o","p","e","r","t","y">>,
      <<"e","n","d","p","r","o","p","e","r","t","y">>, <<"a","u","t","o">>,
      <<"a","u","t","o","r","e","a","d","o","n","l","y">>,
      <<"c","o","n","d","i","t","i","o","n","a","l">>,
      <<"h","i","d","d","e","n">>, <<"c","o","n","s","t">>,
      <<"m","a","n","d","a","t","o","r","y">>, <<"g","r","o","u","p">>,
      <<"e","n","d","g","r","o","u","p">>,
      <<"c","o","l","l","a","p","s","e","d">>,
      <<"c","o","l","l","a","p","s","e","d","o","n","r","e","f">>,
      <<"c","o","l","l","a","p","s","e","d","o","n","b","a","s","e">>,
      <<"n","e","w">>, <<"r","e","t","u","r","n">>,
      <<"l","e","n","g","t","h">>>>

\* the alternatives of constants
constants_words ==
    <<<<"n","o","n","e">>, <<"p","a","r","e","n","t">>,
      <<"s","e","l","f">>, <<"t","r","u","e">>, <<"f","a","l","s","e">>>>

\* the alternatives of fold_open
fold_open_words ==
    <<<<"i","f">>, <<"w","h","i","l","e">>,
      <<"f","u","n","c","t","i","o","n">>, <<"s","t","r","u","c","t">>,
      <<"p","r","o","p","e","r","t","y">>, <<"g","r","o","u","p">>,
      <<"e","v","e","n","t">>, <<"s","t","a","t","e">>>>

\* A variant of fold_middle without else.
fold_middle_words_without_else ==
    <<<<"e","l","s","e","i","f">>>>

\* the alternatives of fold_middle
fold_middle_words ==
    <<<<"e","l","s","e">>, <<"e","l","s","e","i","f">>>>

\* the alternatives of fold_close
fold_close_words ==
    <<<<"e","n","d","i","f">>, <<"e","n","d","w","h","i","l","e">>,
      <<"e","n","d","f","u","n","c","t","i","o","n">>,
      <<"n","a","t","i","v","e">>, <<"e","n","d","s","t","r","u","c","t">>,
      <<"e","n","d","p","r","o","p","e","r","t","y">>, <<"a","u","t","o">>,
      <<"a","u","t","o","r","e","a","d","o","n","l","y">>,
      <<"e","n","d","g","r","o","u","p">>,
      <<"e","n","d","e","v","e","n","t">>,
      <<"e","n","d","s","t","a","t","e">>>>

\* a|b|... over single escaped characters is the class of those characters
operators_re ==
    Chr({"(", ")", "[", "]", ",", "=", "+", "-", "*", "/", "%", ".", "!",
         ">", "<", "|", "&"})
\* ;.*? in place of ;.*$
line_comment_lazy_re == Cat(Chr({";"}), Lazy(AnyChar))
line_comment_re == Cat(Chr({";"}), Cat(Star(AnyChar), Eol))
block_comment_re == Cat(Lit(<<";", "/">>), Cat(Lazy(AnyChar), Lit(<<"/", ";">>)))
doc_comment_re == Cat(Chr({"{"}), Cat(Lazy(AnyChar), Chr({"}"})))
numbers_re ==
    Cat(WordB,
        Cat(Alt(Cat(Lit(<<"0", "x">>), Plus(Chr(HexChars))),
                Alt(Cat(Plus(Chr(Digits)), Cat(Chr({"."}), Star(Chr(Digits)))),
                    Plus(Chr(Digits)))),
            WordB))
strings_re ==
    Cat(Chr({"\""}),
        Cat(Star(NotChr({"\"", "\\"})),
            Cat(Star(Cat(Chr({"\\"}), Cat(AnyChar, Star(NotChr({"\"", "\\"}))))),
                Chr({"\""}))))
\* A variant without the lookahead: the parenthesis is part of the match.
function_calls_consuming_re ==
    Cat(WordB, Cat(Plus(Chr(WordChars)),
                   Cat(Star(Chr(SpaceChars)), Chr({"("}))))
function_calls_re ==
    Cat(WordB, Cat(Plus(Chr(WordChars)),
                   Ahead(Cat(Star(Chr(SpaceChars)), Chr({"("})))))
script_name_re ==
    Cat(Behind(Cat(Lit(<<"s","c","r","i","p","t","n","a","m","e">>),
                   Plus(Chr(SpaceChars)))),
        Plus(Chr(WordChars)))
property_names_re ==
    Cat(Behind(Cat(Lit(<<"p","r","o","p","e","r","t","y">>),
                   Plus(Chr(SpaceChars)))),
        Plus(Chr(WordChars)))

\* Patterns a caller may hand to add_rule or configure_custom_highlighting.
word_foo == "\\bfoo\\b"
some_os == "o*"
lazy_os == "(?=o)o*?"
open_paren == "("

word_foo_re == WordList(<<<<"f", "o", "o">>>>)
some_os_re == Star(Chr({"o"}))
lazy_os_re == Cat(Ahead(Chr({"o"})), Lazy(Chr({"o"})))

\* What PCRE2 makes of the text of a pattern.
Compile(pattern) ==
    CASE pattern = operators -> operators_re
      [] pattern = flow_control -> WordList(flow_control_words)
      [] pattern = types -> WordList(types_words)
      [] pattern = keywords -> WordList(keywords_words)
      [] pattern = constants -> WordList(constants_words)
      [] pattern = fold_open -> WordList(fold_open_words)
      [] pattern = fold_middle -> WordList(fold_middle_words)
      [] pattern = fold_close -> WordList(fold_close_words)
      [] pattern = line_comment -> line_comment_re
      [] pattern = block_comment -> block_comment_re
      [] pattern = doc_comment -> doc_comment_re
      [] pattern = numbers -> numbers_re
      [] pattern = strings -> strings_re
      [] pattern = function_calls -> function_calls_re
      [] pattern = script_name -> script_name_re
      [] pattern = property_names -> property_names_re
      [] pattern = word_foo -> word_foo_re
      [] pattern = some_os -> some_os_re
      [] pattern = lazy_os -> lazy_os_re
      [] pattern = open_paren -> BadSyntax    \* missing closing parenthesis
      [] OTHER -> BadSyntax

\* The pattern texts of the model.
Patterns ==
    {operators, flow_control, types, keywords, constants, fold_open,
     fold_middle, fold_close, line_comment, block_comment, doc_comment,
     numbers, strings, function_calls, script_name, property_names,
     word_foo, some_os, lazy_os, open_paren}

\* QRegularExpression(pattern) for each pattern text: the compiled
\* pattern and isValid().
QRegularExpression ==
    LET Compiled(re) == [re |-> re, valid |-> Compiles(re)]
    IN  [pattern \in Patterns |-> Compiled(Compile(pattern))]

\* QRegularExpression.isValid()
IsValid(pattern) == QRegularExpression[pattern].valid

\* A variant that reports the null match as a match when there is none.
globalMatchUnchecked(regex, s) ==
    LET Iterate(q) == IF ~q.valid THEN <<>>
                      ELSE MatchesFrom(q.re, s, 0, FALSE, regex.caseInsensitive)
        OrNull(ms) == IF ms = <<>> THEN <<NoMatch>> ELSE ms
    IN  OrNull(Iterate(QRegularExpression[regex.pattern]))

\* QRegularExpression.globalMatch(text): an invalid expression yields an
\* iterator without matches (Qt only warns).
globalMatch(regex, s) ==
    LET Iterate(q) == IF ~q.valid THEN <<>>
                      ELSE MatchesFrom(q.re, s, 0, FALSE, regex.caseInsensitive)
    IN  Iterate(QRegularExpression[regex.pattern])

\* A variant that takes capturedEnd for the length.
capturedEnd(m) == m.end

capturedStart(m) == m.start
capturedLength(m) == m.end - m.start

---------------------------------------------------------------------------
(* Themes.                                                                 *)

light_THEME ==
    [background |-> "#FFFFFF", default |-> "#000000", operator |-> "#000000",
     flow_control |-> "#C000C0", type |-> "#6060FF", keyword |-> "#C000C0",
     keyword2 |-> "#6060FF", fold_open |-> "#C000C0", fold_middle |-> "#C000C0",
     fold_close |-> "#C000C0", comment |-> "#008000", number |-> "#606060",
     string |-> "#AA2200", property |-> "#005555", class |-> "#0000FF",
     function |-> "#555500"]
\* A dark theme without a colour for class.
dark_THEME_without_class ==
    [background |-> "#1E1E1E", default |-> "#D4D4D4", operator |-> "#D4D4D4",
     flow_control |-> "#C586C0", type |-> "#569CD6", keyword |-> "#C586C0",
     keyword2 |-> "#9CDCFE", fold_open |-> "#C586C0", fold_middle |-> "#C586C0",
     fold_close |-> "#C586C0", comment |-> "#6A9955", number |-> "#B5CEA8",
     string |-> "#CE9178", property |-> "#4EC9B0", function |-> "#DCDCAA"]
dark_THEME ==
    [background |-> "#1E1E1E", default |-> "#D4D4D4", operator |-> "#D4D4D4",
     flow_control |-> "#C586C0", type |-> "#569CD6", keyword |-> "#C586C0",
     keyword2 |-> "#9CDCFE", fold_open |-> "#C586C0", fold_middle |-> "#C586C0",
     fold_close |-> "#C586C0", comment |-> "#6A9955", number |-> "#B5CEA8",
     string |-> "#CE9178", property |-> "#4EC9B0", class |-> "#4EC9B0",
     function |-> "#DCDCAA"]
nord_THEME ==
    [background |-> "#2E3440", default |-> "#D8DEE9", operator |-> "#81A1C1",
     flow_control |-> "#81A1C1", type |-> "#8FBCBB", keyword |-> "#81A1C1",
     keyword2 |-> "#88C0D0", fold_open |-> "#81A1C1", fold_middle |-> "#81A1C1",
     fold_close |-> "#81A1C1", comment |-> "#616E88", number |-> "#B48EAD",
     string |-> "#A3BE8C", property |-> "#8FBCBB", class |-> "#8FBCBB",
     function |-> "#88C0D0"]
monokai_THEME ==
    [background |-> "#272822", default |-> "#F8F8F2", operator |-> "#F92672",
     flow_control |-> "#F92672", type |-> "#66D9EF", keyword |-> "#F92672",
     keyword2 |-> "#FD971F", fold_open |-> "#F92672", fold_middle |-> "#F92672",
     fold_close |-> "#F92672", comment |-> "#75715E", number |-> "#AE81FF",
     string |-> "#E6DB74", property |-> "#A6E22E", class |-> "#A6E22E",
     function |-> "#A6E22E"]

THEMES ==
    [light |-> light_THEME, dark |-> dark_THEME, nord |-> nord_THEME,
     monokai |-> monokai_THEME]

---------------------------------------------------------------------------
(* SyntaxHighlighter.                                                      *)

\* QTextCharFormat(): nothing set.
QTextCharFormat ==
    [foreground |-> None, background |-> None, bold |-> FALSE, italic |-> FALSE]

\* A variant that inserts the rule at the front.
add_rule_front(rules, pattern, format_name) ==
    <<[regex |-> [pattern |-> pattern, caseInsensitive |-> TRUE],
       format_name |-> format_name]>> \o rules

\* A variant without setPatternOptions(CaseInsensitiveOption).
add_rule_case_sensitive(rules, pattern, format_name) ==
    LET regex == [pattern |-> pattern, caseInsensitive |-> FALSE]
    IN  Append(rules, [regex |-> regex, format_name |-> format_name])

\* add_rule: the rule list with (regex, format_name) appended. The regex
\* is built from the pattern, valid or not, with CaseInsensitiveOption.
add_rule(rules, pattern, format_name) ==
    LET regex == [pattern |-> pattern, caseInsensitive |-> TRUE]
    IN  Append(rules, [regex |-> regex, format_name |-> format_name])

\* A variant that keeps the style a role already has (dict.setdefault).
add_format_setdefault(fmts, format_name, foreground, background, bold, italic) ==
    LET text_format ==
            [foreground |-> IF Truthy(foreground) THEN foreground ELSE None,
             background |-> IF Truthy(background) THEN background ELSE None,
             bold |-> bold, italic |-> italic]
    IN  fmts @@ (format_name :> text_format)

\* add_format: the format table with format_name set or overwritten.
add_format(fmts, format_name, foreground, background, bold, italic) ==
    LET text_format ==
            [foreground |-> IF Truthy(foreground) THEN foreground ELSE None,
             background |-> IF Truthy(background) THEN background ELSE None,
             bold |-> bold, italic |-> italic]
    IN  (format_name :> text_format) @@ fmts

\* A variant that leaves the characters an earlier call has formatted.
setFormatUnformatted(cells, start, count, format) ==
    [k \in 1..Len(cells) |->
        IF start < k /\ k <= start + count /\ cells[k] = QTextCharFormat
        THEN format ELSE cells[k]]

\* QSyntaxHighlighter.setFormat(start, count, format) on the block's
\* per-character formats.
setFormat(cells, start, count, format) ==
    IF start < 0 \/ start >= Len(cells) THEN cells
    ELSE LET end == IF start + count < Len(cells) THEN start + count
                    ELSE Len(cells)
         IN  [k \in 1..Len(cells) |->
                IF start < k /\ k <= end THEN format ELSE cells[k]]

\* A variant that makes no call for a role the format table lacks.
RuleSpansKnownRoles(rules, fmts, s, r) ==
    LET Calls(ms) ==
            [k \in 1..Len(ms) |->
                [start |-> capturedStart(ms[k]),
                 length |-> capturedLength(ms[k]),
                 format |-> fmts[rules[r].format_name],
                 rule |-> r,
                 role |-> rules[r].format_name,
                 pattern |-> rules[r].regex.pattern]]
    IN  IF rules[r].format_name \in DOMAIN fmts
        THEN Calls(globalMatch(rules[r].regex, s))
        ELSE <<>>

\* The setFormat calls one rule makes for block s: one per match, left to
\* right. rule, role and pattern record which rule made the call.
RuleSpans(rules, fmts, s, r) ==
    LET Calls(ms) ==
            [k \in 1..Len(ms) |->
                [start |-> capturedStart(ms[k]),
                 length |-> capturedLength(ms[k]),
                 format |-> Get(fmts, rules[r].format_name, QTextCharFormat),
                 rule |-> r,
                 role |-> rules[r].format_name,
                 pattern |-> rules[r].regex.pattern]]
    IN  Calls(globalMatch(rules[r].regex, s))

RECURSIVE SpansDownFrom(_, _, _, _, _)
\* A variant that walks the rule list from its end.
SpansDownFrom(rules, fmts, s, r, n) ==
    IF r > n THEN <<>>
    ELSE IF r = n THEN RuleSpans(rules, fmts, s, r)
    ELSE SpansDownFrom(rules, fmts, s, (r + n) \div 2 + 1, n)
         \o SpansDownFrom(rules, fmts, s, r, (r + n) \div 2)

RECURSIVE SpansFrom(_, _, _, _, _)
\* The setFormat calls of rules r, r + 1, ..., n, in that order.
SpansFrom(rules, fmts, s, r, n) ==
    IF r > n THEN <<>>
    ELSE IF r = n THEN RuleSpans(rules, fmts, s, r)
    ELSE SpansFrom(rules, fmts, s, r, (r + n) \div 2)
         \o SpansFrom(rules, fmts, s, (r + n) \div 2 + 1, n)

RECURSIVE Paint(_, _)
\* cells after the calls of calls, applied first to last.
Paint(cells, calls) ==
    IF calls = <<>> THEN cells
    ELSE Paint(setFormat(cells, Head(calls).start, Head(calls).length,
                         Head(calls).format),
               Tail(calls))

\* highlightBlock(text): the calls it makes and the formats it leaves.
highlightBlock(rules, fmts, s) ==
    LET Block(calls) ==
            [spans |-> calls,
             painted |-> Paint([k \in 1..Len(s) |-> QTextCharFormat], calls)]
    IN  Block(SpansFrom(rules, fmts, s, 1, Len(rules)))

---------------------------------------------------------------------------
(* SourceCodeTextBox: the two configurations.                              *)

\* The add_format calls of configure_papyrus_highlighting, in order.
PapyrusFormats(theme) ==
    <<[name |-> "default", foreground |-> theme["default"], bold |-> FALSE, italic |-> FALSE],
      [name |-> "operator", foreground |-> theme["operator"], bold |-> FALSE, italic |-> FALSE],
      [name |-> "flow_control", foreground |-> theme["flow_control"], bold |-> FALSE, italic |-> FALSE],
      [name |-> "type", foreground |-> theme["type"], bold |-> FALSE, italic |-> FALSE],
      [name |-> "keyword", foreground |-> theme["keyword"], bold |-> FALSE, italic |-> FALSE],
      [name |-> "keyword2", foreground |-> theme["keyword2"], bold |-> FALSE, italic |-> FALSE],
      [name |-> "fold_open", foreground |-> theme["fold_open"], bold |-> FALSE, italic |-> FALSE],
      [name |-> "fold_middle", foreground |-> theme["fold_middle"], bold |-> FALSE, italic |-> FALSE],
      [name |-> "fold_close", foreground |-> theme["fold_close"], bold |-> FALSE, italic |-> FALSE],
      [name |-> "comment", foreground |-> theme["comment"], bold |-> FALSE, italic |-> TRUE],
      [name |-> "number", foreground |-> theme["number"], bold |-> FALSE, italic |-> FALSE],
      [name |-> "string", foreground |-> theme["string"], bold |-> FALSE, italic |-> FALSE],
      [name |-> "property", foreground |-> theme["property"], bold |-> TRUE, italic |-> FALSE],
      [name |-> "class", foreground |-> theme["class"], bold |-> FALSE, italic |-> FALSE],
      [name |-> "function", foreground |-> theme["function"], bold |-> FALSE, italic |-> FALSE]>>

\* A variant that registers the three comment rules after all the others.
PapyrusRulesCommentsLast ==
    <<<<operators, "operator">>, <<flow_control, "flow_control">>,
      <<types, "type">>, <<keywords, "keyword">>, <<constants, "keyword2">>,
      <<fold_open, "fold_open">>, <<fold_middle, "fold_middle">>,
      <<fold_close, "fold_close">>,
      <<numbers, "number">>, <<strings, "string">>,
      <<function_calls, "function">>, <<script_name, "class">>,
      <<property_names, "property">>, <<line_comment, "comment">>,
      <<block_comment, "comment">>, <<doc_comment, "comment">>>>

\* The add_rule calls of configure_papyrus_highlighting, in order.
PapyrusRules ==
    <<<<operators, "operator">>, <<flow_control, "flow_control">>,
      <<types, "type">>, <<keywords, "keyword">>, <<constants, "keyword2">>,
      <<fold_open, "fold_open">>, <<fold_middle, "fold_middle">>,
      <<fold_close, "fold_close">>, <<line_comment, "comment">>,
      <<block_comment, "comment">>, <<doc_comment, "comment">>,
      <<numbers, "number">>, <<strings, "string">>,
      <<function_calls, "function">>, <<script_name, "class">>,
      <<property_names, "property">>>>

RECURSIVE AddFormats(_, _)
\* add_format called for each entry of defs in turn
AddFormats(fmts, defs) ==
    IF defs = <<>> THEN fmts
    ELSE IF Len(defs) = 1
    THEN add_format(fmts, defs[1].name, defs[1].foreground,
                    None, defs[1].bold, defs[1].italic)
    ELSE LET Then(first) ==
                 AddFormats(first, SubSeq(defs, Len(defs) \div 2 + 1, Len(defs)))
         IN  Then(AddFormats(fmts, SubSeq(defs, 1, Len(defs) \div 2)))

RECURSIVE AddRules(_, _)
\* for pattern, format_name in entries: add_rule(pattern, format_name).
\* An entry that does not unpack into two values raises ValueError and
\* leaves the rules added so far.
AddRules(rules, entries) ==
    LET Then(first) ==
            IF first.error # NoError THEN first
            ELSE AddRules(first.rules,
                          SubSeq(entries, Len(entries) \div 2 + 1, Len(entries)))
    IN  IF entries = <<>> THEN [rules |-> rules, error |-> NoError]
        ELSE IF Len(entries) > 1
        THEN Then(AddRules(rules, SubSeq(entries, 1, Len(entries) \div 2)))
        ELSE IF Len(entries[1]) # 2
        THEN [rules |-> rules, error |-> "ValueError"]
        ELSE [rules |-> add_rule(rules, entries[1][1], entries[1][2]),
              error |-> NoError]

\* A variant without _highlighting_rules.clear().
PapyrusConfigKeepRules(rules, fmts, theme) ==
    [rules |-> AddRules(rules, PapyrusRules).rules,
     formats |-> AddFormats(<<>>, PapyrusFormats(theme))]

\* A variant without _formats.clear().
PapyrusConfigKeepFormats(rules, fmts, theme) ==
    [rules |-> AddRules(<<>>, PapyrusRules).rules,
     formats |-> AddFormats(fmts, PapyrusFormats(theme))]

\* A variant that reads the colours of the light theme whatever the theme.
PapyrusConfigLight(rules, fmts, theme) ==
    [rules |-> AddRules(<<>>, PapyrusRules).rules,
     formats |-> AddFormats(<<>>, PapyrusFormats(light_THEME))]

\* configure_papyrus_highlighting on a highlighter holding (rules, fmts):
\* both are cleared, then the profile is registered under the theme.
PapyrusConfig(rules, fmts, theme) ==
    [rules |-> AddRules(<<>>, PapyrusRules).rules,
     formats |-> AddFormats(<<>>, PapyrusFormats(theme))]

RECURSIVE AddCustomFormats(_, _, _)
\* for name, properties in formats.items(): add_format(name, ...)
AddCustomFormats(fmts, custom, names) ==
    IF names = {} THEN fmts
    ELSE LET name == CHOOSE n \in names : TRUE
             properties == custom[name]
         IN  AddCustomFormats(
                 add_format(fmts, name,
                            Get(properties, "foreground", None),
                            Get(properties, "background", None),
                            Get(properties, "bold", FALSE),
                            Get(properties, "italic", FALSE)),
                 custom, names \ {name})

\* A variant without the two clear() calls.
CustomConfigKeep(rules0, fmts0, rules, custom) ==
    LET installed == AddRules(rules0, rules)
    IN  [rules |-> installed.rules,
         formats |-> AddCustomFormats(fmts0, custom, DOMAIN custom),
         error |-> installed.error]

\* A variant that installs nothing when an entry fails.
CustomConfigAtomic(rules0, fmts0, rules, custom) ==
    LET installed == AddRules(<<>>, rules)
    IN  IF installed.error # NoError
        THEN [rules |-> rules0, formats |-> fmts0, error |-> installed.error]
        ELSE [rules |-> installed.rules,
              formats |-> AddCustomFormats(<<>>, custom, DOMAIN custom),
              error |-> NoError]

\* configure_custom_highlighting(rules, formats) on a highlighter holding
\* (rules0, fmts0): both are cleared, then the formats and the rules given
\* are installed. None and empty arguments are both falsy: <<>> is either.
CustomConfig(rules0, fmts0, rules, custom) ==
    LET installed == AddRules(<<>>, rules)
    IN  [rules |-> installed.rules,
         formats |-> AddCustomFormats(<<>>, custom, DOMAIN custom),
         error |-> installed.error]

---------------------------------------------------------------------------
(* Arguments the operations are called with.                               *)

\* theme identifiers the editor is constructed with: the default and one
\* the registry does not hold
ThemeNames == {"nord", "solarized"}

\* theme identifiers set_theme is called with
SetThemeNames == {"dark", "solarized"}

\* the (rules, formats) arguments of configure_custom_highlighting
CustomArgs ==
    LET two == [c1 |-> [foreground |-> "#111111"],
                c2 |-> [foreground |-> "#222222", bold |-> TRUE]]
    IN  << [rules |-> <<>>, formats |-> <<>>],
           [rules |-> <<<<line_comment, "c1">>, <<word_foo, "c2">>>>,
            formats |-> two],
           [rules |-> <<<<some_os, "c1">>>>, formats |-> two],
           [rules |-> <<<<open_paren, "c2">>>>, formats |-> <<>>],
           [rules |-> <<<<word_foo, "c1">>, <<word_foo>>>>, formats |-> two] >>

\* the arguments of direct add_rule calls
AddedRules ==
    { <<some_os, "comment">>, <<open_paren, "c1">> }

\* the arguments of direct add_format calls
AddedFormats ==
    { [name |-> "comment", foreground |-> None, background |-> "#444444",
       bold |-> FALSE, italic |-> FALSE] }

\* the lines the document holds
Lines ==
    { <<>>,
      <<";", " ", " ", "f", "o", "o", " ", "b", "a", "r">>,
      <<"I", "f", " ", "F", "o", "o", "(", "1", ")">> }

---------------------------------------------------------------------------
(* get_repos.py: fetch_with_backoff(base_url, page). Times are in          *)
(* milliseconds.                                                           *)

MAX_RETRIES == 5

\* status codes the server answers with
StatusCodes == {200, 403, 500}

\* values of random.uniform(0, 1)
Jitter == {0, 500, 1000}

\* the call has set attempt = 0 and built the URL; response is the status
\* code of the last response, 0 while there is none
FetchCalled ==
    [pc |-> "while", attempt |-> 0, requests |-> 0, response |-> 0,
     slept |-> <<>>, result |-> None]

\* A variant of the loop condition that allows one more round.
while_condition_inclusive(attempt) == attempt <= MAX_RETRIES

\* while attempt < MAX_RETRIES
while_condition(attempt) == attempt < MAX_RETRIES

\* sleep_time = (2**attempt) + random.uniform(0, 1)
sleep_time(attempt, jitter) == 1000 * 2^attempt + jitter

---------------------------------------------------------------------------
(* The state machine.                                                      *)

\* the block is the only one of the document
NoNeighbours == [before |-> <<>>, after |-> <<>>]

\* SourceCodeTextBox.__init__(theme=...): the highlighter has no rules.
Init ==
    /\ current_theme \in {IF t \in DOMAIN THEMES THEN t ELSE "light" : t \in ThemeNames}
    /\ configured = FALSE
    /\ highlighting_rules = <<>>
    /\ formats = <<>>
    /\ highlighting_combo = "Papyrus"
    /\ text = <<>>
    /\ neighbours = NoNeighbours
    /\ spans = <<>>
    /\ painted = <<>>
    /\ error = NoError
    /\ added = 0
    /\ mode = "custom"
    /\ last = [op |-> "__init__", arg |-> <<>>]
    /\ prev = "none"
    /\ themes = THEMES
    /\ fetch = FetchCalled

\* The editor and its highlighter, as one value the methods transform.
Box ==
    [current_theme |-> current_theme, configured |-> configured,
     highlighting_rules |-> highlighting_rules, formats |-> formats,
     text |-> text, neighbours |-> neighbours, spans |-> spans,
     painted |-> painted, error |-> NoError, added |-> added, mode |-> mode,
     themes |-> themes]

\* The state becomes box b.
Becomes(b) ==
    /\ current_theme' = b.current_theme
    /\ configured' = b.configured
    /\ highlighting_rules' = b.highlighting_rules
    /\ formats' = b.formats
    /\ text' = b.text
    /\ neighbours' = b.neighbours
    /\ spans' = b.spans
    /\ painted' = b.painted
    /\ error' = b.error
    /\ added' = b.added
    /\ mode' = b.mode
    /\ themes' = b.themes
    /\ UNCHANGED fetch

Record(op, arg) ==
    /\ last' = [op |-> op, arg |-> arg]
    /\ prev' = last.op

\* A variant that uses the rule list up.
rehighlightOnce(b) ==
    LET Shown(hb) == [b EXCEPT !.spans = hb.spans, !.painted = hb.painted,
                               !.highlighting_rules = <<>>]
    IN  Shown(highlightBlock(b.highlighting_rules, b.formats, b.text))

\* A variant that continues a block comment the block before left open.
rehighlightContinued(b) ==
    LET open == /\ Len(b.neighbours.before) >= 2
                /\ b.neighbours.before[1] = ";"
                /\ b.neighbours.before[2] = "/"
        comment == Get(b.formats, "comment", QTextCharFormat)
        Shown(hb) ==
            IF open
            THEN [b EXCEPT !.spans = Append(hb.spans,
                                        [start |-> 0, length |-> Len(b.text),
                                         format |-> comment,
                                         rule |-> Len(b.highlighting_rules) + 1,
                                         role |-> "comment",
                                         pattern |-> block_comment]),
                           !.painted = [k \in 1..Len(b.text) |-> comment]]
            ELSE [b EXCEPT !.spans = hb.spans, !.painted = hb.painted]
    IN  Shown(highlightBlock(b.highlighting_rules, b.formats, b.text))

\* highlighter.rehighlight(): highlightBlock runs on the document's block.
rehighlight(b) ==
    LET Shown(hb) == [b EXCEPT !.spans = hb.spans, !.painted = hb.painted]
    IN  Shown(highlightBlock(b.highlighting_rules, b.formats, b.text))

\* SourceCodeTextBox.configure_papyrus_highlighting()
configure_papyrus_highlighting(b) ==
    LET Installed(cfg) == [b EXCEPT !.configured = TRUE,
                                    !.highlighting_rules = cfg.rules,
                                    !.formats = cfg.formats,
                                    !.mode = "papyrus",
                                    !.added = 0]
    IN  rehighlight(Installed(PapyrusConfig(b.highlighting_rules, b.formats,
                                            b.themes[b.current_theme])))

\* A variant that deletes the _papyrus_highlighting_configured attribute.
configure_custom_highlighting_forgets(b, rules, custom) ==
    LET Installed(cfg) == [b EXCEPT !.configured = FALSE,
                                    !.highlighting_rules = cfg.rules,
                                    !.formats = cfg.formats,
                                    !.error = cfg.error,
                                    !.mode = "custom",
                                    !.added = 0]
        Finish(b1) == IF b1.error = NoError THEN rehighlight(b1) ELSE b1
    IN  Finish(Installed(CustomConfig(b.highlighting_rules, b.formats,
                                      rules, custom)))

\* SourceCodeTextBox.configure_custom_highlighting(rules, formats): an
\* exception leaves before the rehighlight.
configure_custom_highlighting(b, rules, custom) ==
    LET Installed(cfg) == [b EXCEPT !.highlighting_rules = cfg.rules,
                                    !.formats = cfg.formats,
                                    !.error = cfg.error,
                                    !.mode = "custom",
                                    !.added = 0]
        Finish(b1) == IF b1.error = NoError THEN rehighlight(b1) ELSE b1
    IN  Finish(Installed(CustomConfig(b.highlighting_rules, b.formats,
                                      rules, custom)))

\* A variant that configures the profile whether or not it was configured.
set_theme_always_configures(b, theme_name) ==
    LET name == IF theme_name \notin DOMAIN THEMES THEN "light" ELSE theme_name
    IN  configure_papyrus_highlighting([b EXCEPT !.current_theme = name])

\* A variant that stores the identifier as given.
set_theme_as_given(b, theme_name) ==
    LET Reapply(b1) == IF b1.configured /\ theme_name \in DOMAIN THEMES
                       THEN configure_papyrus_highlighting(b1)
                       ELSE b1
    IN  Reapply([b EXCEPT !.current_theme = theme_name])

\* A variant that re-applies the profile before it stores the theme.
set_theme_late(b, theme_name) ==
    LET name == IF theme_name \notin DOMAIN THEMES THEN "light" ELSE theme_name
        Store(b1) == [b1 EXCEPT !.current_theme = name]
    IN  Store(IF b.configured THEN configure_papyrus_highlighting(b) ELSE b)

\* A variant that registers an unknown identifier under light's colours.
set_theme_registers(b, theme_name) ==
    LET Reapply(b1) == IF b1.configured THEN configure_papyrus_highlighting(b1)
                       ELSE b1
    IN  Reapply([b EXCEPT !.current_theme = theme_name,
                          !.themes = b.themes @@ (theme_name :> b.themes["light"])])

\* SourceCodeTextBox.set_theme(theme_name)
set_theme(b, theme_name) ==
    LET name == IF theme_name \notin DOMAIN b.themes THEN "light" ELSE theme_name
        Reapply(b1) == IF b1.configured THEN configure_papyrus_highlighting(b1)
                       ELSE b1
    IN  Reapply([b EXCEPT !.current_theme = name])

\* EditorWidget.update_theme(theme_name), with the syntax combo's text
update_theme(b, theme_name, combo) ==
    LET Reapply(b1) == IF combo = "Papyrus" THEN configure_papyrus_highlighting(b1)
                       ELSE b1
    IN  Reapply(set_theme(b, theme_name))

\* EditorWidget.update_highlighting(highlighting_type)
update_highlighting(b, highlighting_type) ==
    IF highlighting_type = "Papyrus" THEN configure_papyrus_highlighting(b)
    ELSE configure_custom_highlighting(b, <<>>, <<>>)

SetTheme(theme_name) ==
    /\ Becomes(set_theme(Box, theme_name))
    /\ Record("set_theme", theme_name)
    /\ UNCHANGED highlighting_combo

ConfigurePapyrus ==
    /\ Becomes(configure_papyrus_highlighting(Box))
    /\ Record("configure_papyrus_highlighting", <<>>)
    /\ UNCHANGED highlighting_combo

ConfigureCustom(rules, custom) ==
    /\ Becomes(configure_custom_highlighting(Box, rules, custom))
    /\ Record("configure_custom_highlighting",
              [rules |-> rules, formats |-> custom])
    /\ UNCHANGED highlighting_combo

\* highlighter.add_rule called by the owner of the editor.
AddRule(pattern, format_name) ==
    /\ added < MaxAdded
    /\ Becomes([Box EXCEPT !.highlighting_rules =
                               add_rule(highlighting_rules, pattern, format_name),
                           !.added = added + 1])
    /\ Record("add_rule", pattern)
    /\ UNCHANGED highlighting_combo

\* highlighter.add_format called by the owner of the editor.
AddFormat(f) ==
    /\ added < MaxAdded
    /\ Becomes([Box EXCEPT !.formats =
                               add_format(formats, f.name, f.foreground,
                                          f.background, f.bold, f.italic),
                           !.added = added + 1])
    /\ Record("add_format", f)
    /\ UNCHANGED highlighting_combo

\* highlightBlock called again on the unchanged block.
Highlight ==
    /\ Becomes(rehighlight(Box))
    /\ Record("highlight", <<>>)
    /\ UNCHANGED highlighting_combo

\* The user edits the block: Qt calls highlightBlock with its new text.
EditText(s) ==
    /\ s # text
    /\ Becomes(rehighlight([Box EXCEPT !.text = s]))
    /\ Record("edit", <<>>)
    /\ UNCHANGED highlighting_combo

\* The syntax combo box changes to highlighting_type (currentTextChanged).
UpdateHighlighting(highlighting_type) ==
    /\ highlighting_type # highlighting_combo
    /\ highlighting_combo' = highlighting_type
    /\ Becomes(update_highlighting(Box, highlighting_type))
    /\ Record("update_highlighting", highlighting_type)

\* The theme combo box changes to theme_name (currentTextChanged).
UpdateTheme(theme_name) ==
    /\ theme_name # current_theme
    /\ Becomes(update_theme(Box, theme_name, highlighting_combo))
    /\ Record("update_theme", theme_name)
    /\ UNCHANGED highlighting_combo

\* SourceCodeTextBox.get_available_themes(): a new list of the registry's
\* keys, in the order the module registers them.
get_available_themes(b) ==
    SelectSeq(<<"light", "dark", "nord", "monokai">>,
              LAMBDA name : name \in DOMAIN b.themes)

\* The owner of the editor asks for the theme names.
GetAvailableThemes ==
    /\ Becomes(Box)
    /\ Record("get_available_themes", get_available_themes(Box))
    /\ UNCHANGED highlighting_combo

\* the variables of the editor
editor_vars ==
    <<current_theme, configured, highlighting_rules, formats,
      highlighting_combo, text, neighbours, spans, painted, error, added,
      mode, last, prev, themes>>

\* One round of the loop up to the test of the status code: the request is
\* sent and answered; status 200 returns the decoded body.
Request(status_code) ==
    /\ fetch.pc = "while"
    /\ while_condition(fetch.attempt)
    /\ fetch' = IF status_code = 200
                THEN [fetch EXCEPT !.requests = @ + 1,
                                   !.response = status_code,
                                   !.result = "json_data",
                                   !.pc = "done"]
                ELSE [fetch EXCEPT !.requests = @ + 1,
                                   !.response = status_code,
                                   !.pc = "sleep"]
    /\ UNCHANGED editor_vars

\* The rest of the round after a status other than 200: the messages, the
\* sleep and attempt += 1.
Backoff(jitter) ==
    /\ fetch.pc = "sleep"
    /\ fetch' = [fetch EXCEPT !.slept = Append(@, sleep_time(fetch.attempt, jitter)),
                              !.attempt = @ + 1,
                              !.pc = "while"]
    /\ UNCHANGED editor_vars

\* The loop condition is false: raise Exception("Failed after ... retries").
GiveUp ==
    /\ fetch.pc = "while"
    /\ ~while_condition(fetch.attempt)
    /\ fetch' = [fetch EXCEPT !.result = "Exception", !.pc = "done"]
    /\ UNCHANGED editor_vars

Next ==
    \/ \E t \in SetThemeNames : SetTheme(t)
    \/ ConfigurePapyrus
    \/ \E c \in 1..Len(CustomArgs) :
           ConfigureCustom(CustomArgs[c].rules, CustomArgs[c].formats)
    \/ \E r \in AddedRules : AddRule(r[1], r[2])
    \/ \E f \in AddedFormats : AddFormat(f)
    \/ Highlight
    \/ \E s \in Lines : EditText(s)

Spec == Init /\ [][Next]_vars

---------------------------------------------------------------------------
(* The editor inside EditorWidget: only the two combo boxes and the user's *)
(* typing reach it.                                                        *)

\* EditorWidget.__init__: SourceCodeTextBox() with its default theme, then
\* update_highlighting("Papyrus").
InitEditor ==
    LET b0 == [current_theme |-> "nord", configured |-> FALSE,
               highlighting_rules |-> <<>>, formats |-> <<>>,
               text |-> <<>>, neighbours |-> NoNeighbours,
               spans |-> <<>>, painted |-> <<>>,
               error |-> NoError, added |-> 0, mode |-> "custom",
               themes |-> THEMES]
        Is(b) == /\ current_theme = b.current_theme
                 /\ configured = b.configured
                 /\ highlighting_rules = b.highlighting_rules
                 /\ formats = b.formats
                 /\ text = b.text
                 /\ neighbours = b.neighbours
                 /\ spans = b.spans
                 /\ painted = b.painted
                 /\ error = b.error
                 /\ added = b.added
                 /\ mode = b.mode
                 /\ themes = b.themes
                 /\ fetch = FetchCalled
    IN  /\ Is(update_highlighting(b0, "Papyrus"))
        /\ highlighting_combo = "Papyrus"
        /\ last = [op |-> "update_highlighting", arg |-> "Papyrus"]
        /\ prev = "__init__"

NextEditor ==
    \/ \E h \in {"Papyrus", "None"} : UpdateHighlighting(h)
    \/ \E t \in DOMAIN THEMES : UpdateTheme(t)
    \/ \E s \in Lines : EditText(s)

SpecEditor == InitEditor /\ [][NextEditor]_vars

---------------------------------------------------------------------------
(* The document: the block, the blocks around it, and the profile or a     *)
(* custom rule on the lines the profile is written for.                    *)

comment_line ==      \* ; comment text
    <<";"," ","c","o","m","m","e","n","t"," ","t","e","x","t">>
call_line ==         \* Foo("bar")
    <<"F","o","o","(","\"","b","a","r","\"",")">>
scriptname_line ==   \* scriptname MyScript extends Quest
    <<"s","c","r","i","p","t","n","a","m","e"," ","M","y","S","c","r","i",
      "p","t"," ","e","x","t","e","n","d","s"," ","Q","u","e","s","t">>

code_comment_line == \* a ;b
    <<"a"," ",";","b">>

\* the lines the block holds
DocumentLines == {comment_line, code_comment_line, call_line, scriptname_line}

\* the blocks around it: none, or a block comment opened in the block
\* before and closed in the block after
DocumentNeighbours ==
    { NoNeighbours,
      [before |-> <<";","/"," ","a">>,
       after |-> <<"b"," ","/",";">>] }

\* theme identifiers set_theme is called with
DocumentThemes == {"light", "dark", "nord", "monokai"}

\* the (rules, formats) argument of configure_custom_highlighting
DocumentCustomArgs ==
    [rules |-> <<<<lazy_os, "c1">>>>,
     formats |-> [c1 |-> [foreground |-> "#111111"]]]

\* The user edits the blocks around the block. Qt calls highlightBlock for
\* the blocks edited; no block state is ever set, so it does not go on to
\* the blocks that follow.
EditNeighbours(n) ==
    /\ n # neighbours
    /\ Becomes([Box EXCEPT !.neighbours = n])
    /\ Record("edit_neighbours", <<>>)
    /\ UNCHANGED highlighting_combo

\* SourceCodeTextBox(theme="light")
InitDocument == Init /\ current_theme = "light"

NextDocument ==
    \/ \E t \in DocumentThemes : SetTheme(t)
    \/ ConfigurePapyrus
    \/ ConfigureCustom(DocumentCustomArgs.rules, DocumentCustomArgs.formats)
    \/ \E s \in DocumentLines : EditText(s)
    \/ \E n \in DocumentNeighbours : EditNeighbours(n)
    \/ Highlight

SpecDocument == InitDocument /\ [][NextDocument]_vars

---------------------------------------------------------------------------
(* The editor with every operation of its interface, get_available_themes  *)
(* included, on a small set of arguments.                                  *)

\* the lines the document holds
RegistryLines == { <<>>, <<"I", "f", " ", "F", "o", "o", "(", "1", ")">> }

NextRegistry ==
    \/ \E t \in SetThemeNames : SetTheme(t)
    \/ ConfigurePapyrus
    \/ ConfigureCustom(CustomArgs[2].rules, CustomArgs[2].formats)
    \/ AddRule(open_paren, "c1")
    \/ \E f \in AddedFormats : AddFormat(f)
    \/ Highlight
    \/ \E s \in RegistryLines : EditText(s)
    \/ GetAvailableThemes

SpecRegistry == Init /\ [][NextRegistry]_vars

---------------------------------------------------------------------------
(* One call of fetch_with_backoff.                                         *)

NextFetch ==
    \/ \E status_code \in StatusCodes : Request(status_code)
    \/ \E jitter \in Jitter : Backoff(jitter)
    \/ GiveUp

SpecFetch == Init /\ [][NextFetch]_vars

---------------------------------------------------------------------------
(* The language profile and a custom configuration on lines that hold the  *)
(* flow-control words, code inside comments and words in several cases.    *)

\* If elseif ELSE: the three branch words of flow_control, in mixed case
branch_line ==
    <<"I", "f", " ", "e", "l", "s", "e", "i", "f", " ", "E", "L", "S", "E">>

\* EndIf While ENDWHILE: the other three words of flow_control
loop_line ==
    <<"E", "n", "d", "I", "f", " ", "W", "h", "i", "l", "e", " ", "E", "N", "D", "W", "H", "I", "L", "E">>

\* ;1 "a" f(2): a number, a string and a call inside a line comment
commented_code_line ==
    <<";", "1", " ", "\"", "a", "\"", " ", "f", "(", "2", ")">>

\* if (x): a keyword that a parenthesis follows
condition_line ==
    <<"i", "f", " ", "(", "x", ")">>

\* ;property P: a property declaration inside a line comment
commented_property_line ==
    <<";", "p", "r", "o", "p", "e", "r", "t", "y", " ", "P">>

\* ;scriptname S: a script header inside a line comment
commented_scriptname_line ==
    <<";", "s", "c", "r", "i", "p", "t", "n", "a", "m", "e", " ", "S">>

\* Foo FOO: the word of the custom rule in two spellings
foo_line ==
    <<"F", "o", "o", " ", "F", "O", "O">>

ProfileLines ==
    { <<>>, branch_line, loop_line, commented_code_line, condition_line,
      commented_property_line, commented_scriptname_line, foo_line }

NextProfileLines ==
    \/ ConfigurePapyrus
    \/ ConfigureCustom(CustomArgs[2].rules, CustomArgs[2].formats)
    \/ \E s \in ProfileLines : EditText(s)
    \/ Highlight

SpecProfileLines == Init /\ [][NextProfileLines]_vars

---------------------------------------------------------------------------
(* The operations' names in the history.                                   *)

CP == "configure_papyrus_highlighting"
CC == "configure_custom_highlighting"

\* whether span sp covers the character at offset k
Covers(sp, k) == sp.start <= k /\ k < sp.start + sp.length

\* the patterns and the roles of the language profile
ProfilePatterns == {PapyrusRules[i][1] : i \in 1..Len(PapyrusRules)}
ProfileRoles ==
    {"default", "operator", "flow_control", "type", "keyword", "keyword2",
     "fold_open", "fold_middle", "fold_close", "comment", "number", "string",
     "property", "class", "function"}

---------------------------------------------------------------------------
(* C1: when several rules match a character, highlight leaves it with the  *)
(* format of the rule registered last among them.                          *)
C1_LaterRuleWins ==
    \A k \in 0..(Len(text) - 1) : \A a \in 1..Len(spans) :
        ( /\ Covers(spans[a], k)
          /\ \A b \in 1..Len(spans) :
                Covers(spans[b], k) => spans[b].rule <= spans[a].rule )
        => painted[k + 1] = spans[a].format

\* R1 (registered first) matched [0,10), R2 (registered second) matched
\* [3,6): [3,6) carries R2's format, [0,3) and [6,10) carry R1's.
C1_Witness ==
    \E a, b \in 1..Len(spans) :
        /\ spans[a].rule = 1 /\ spans[a].start = 0 /\ spans[a].length = 10
        /\ spans[b].rule = 2 /\ spans[b].start = 3 /\ spans[b].length = 3
        /\ spans[a].format # spans[b].format
        /\ \A k \in 0..9 :
              painted[k + 1] = IF k \in 3..5 THEN spans[b].format
                               ELSE spans[a].format

(* C2, as claimed: every span has 0 <= start, length > 0 and               *)
(* start + length <= len(line).                                            *)
C2_NoZeroLengthSpan ==
    \A a \in 1..Len(spans) :
        /\ 0 <= spans[a].start
        /\ spans[a].length > 0
        /\ spans[a].start + spans[a].length <= Len(text)

(* C2, amended: every span has 0 <= start, length >= 0 and                 *)
(* start + length <= len(line); the spans of the language profile's        *)
(* patterns have length > 0.                                               *)
C2_SpansInBounds ==
    \A a \in 1..Len(spans) :
        /\ 0 <= spans[a].start
        /\ spans[a].length >= 0
        /\ spans[a].start + spans[a].length <= Len(text)
        /\ spans[a].pattern \in ProfilePatterns => spans[a].length > 0

\* a custom rule emitted a zero-length span and a span of positive length
C2_Witness ==
    \E a, b \in 1..Len(spans) :
        /\ spans[a].length = 0 /\ spans[a].pattern = some_os
        /\ spans[b].length > 0 /\ spans[b].pattern = some_os

(* C3, as claimed: the mode changes only in a step that is an explicit     *)
(* configure_papyrus_highlighting or configure_custom_highlighting call.   *)
C3_ModeChangesOnlyInConfigure ==
    [][mode' # mode => last'.op \in {CP, CC}]_vars

(* C4: configure_custom_highlighting() with no rules and no formats leaves *)
(* an empty rule list and an empty format table, and highlight then        *)
(* returns no span for any line.                                           *)
C4_RoundTrip ==
    ( /\ last.op = CC
      /\ last.arg.rules = <<>>
      /\ DOMAIN last.arg.formats = {} )
    => /\ highlighting_rules = <<>>
       /\ DOMAIN formats = {}
       /\ spans = <<>>
       /\ \A s \in Lines :
             highlightBlock(highlighting_rules, formats, s).spans = <<>>

\* the empty configuration was installed right after the language profile
C4_Witness ==
    /\ last.op = CC
    /\ last.arg.rules = <<>>
    /\ DOMAIN last.arg.formats = {}
    /\ prev = CP
    /\ text # <<>>
    /\ spans = <<>>

(* C5: highlight called again on the same line, with no configuration      *)
(* change in between, returns the same spans and formats.                  *)
C5_Deterministic ==
    [][(last.op \in {"highlight", "edit"} /\ last'.op = "highlight")
       => (spans' = spans /\ painted' = painted)]_vars

\* highlight ran twice in a row on a line that has spans
C5_Witness ==
    /\ last.op = "highlight"
    /\ prev = "highlight"
    /\ spans # <<>>

(* C6: configure_papyrus_highlighting called twice in a row leaves the     *)
(* rule list and the format table of the first call.                       *)
C6_Idempotent ==
    [][(last.op = CP /\ last'.op = CP)
       => (highlighting_rules' = highlighting_rules /\ formats' = formats)]_vars

\* the profile was configured twice in a row
C6_Witness ==
    /\ last.op = CP
    /\ prev = CP
    /\ Len(highlighting_rules) = Len(PapyrusRules)

(* C7: after configure_papyrus_highlighting, direct or through set_theme,  *)
(* the rule list is exactly the profile's 16 rules and the format table    *)
(* has exactly the profile's roles, whatever was installed before.         *)
C7_DiscardsPriorState ==
    (last.op = CP \/ (last.op = "set_theme" /\ configured))
    => /\ Len(highlighting_rules) = Len(PapyrusRules)
       /\ \A i \in 1..Len(highlighting_rules) :
             /\ highlighting_rules[i].regex.pattern = PapyrusRules[i][1]
             /\ highlighting_rules[i].format_name = PapyrusRules[i][2]
       /\ DOMAIN formats = ProfileRoles

\* the profile was configured over a rule list that add_rule had extended
C7_Witness ==
    /\ last.op = CP
    /\ prev = "add_rule"
    /\ Len(highlighting_rules) = Len(PapyrusRules)

\* The engine holds exactly the configuration the last call supplied.
HoldsSupplied ==
    /\ Len(highlighting_rules) = Len(last.arg.rules)
    /\ \A i \in 1..Len(last.arg.rules) :
          /\ highlighting_rules[i].regex.pattern = last.arg.rules[i][1]
          /\ highlighting_rules[i].format_name = last.arg.rules[i][2]
    /\ DOMAIN formats = DOMAIN last.arg.formats

(* C8: configure_custom_highlighting(rules, formats) that returns leaves   *)
(* the rule list equal to the supplied pairs, in order, and the format     *)
(* table with exactly the supplied names; add_rule appends at the end.     *)
C8_CustomInstalled ==
    [][ /\ (last'.op = CC /\ error' = NoError) => HoldsSupplied'
        /\ last'.op = "add_rule" =>
              /\ Len(highlighting_rules') = Len(highlighting_rules) + 1
              /\ SubSeq(highlighting_rules', 1, Len(highlighting_rules))
                     = highlighting_rules
              /\ highlighting_rules'[Len(highlighting_rules')].regex.pattern
                     = last'.arg ]_vars

\* two custom rules were installed over the language profile
C8_Witness ==
    /\ last.op = CC
    /\ error = NoError
    /\ prev = CP
    /\ Len(highlighting_rules) = 2
    /\ DOMAIN formats = {"c1", "c2"}

\* no rule of the list has pattern p
NotStored(p) ==
    \A i \in 1..Len(highlighting_rules) : highlighting_rules[i].regex.pattern # p

(* C9, as claimed: add_rule or configure_custom_highlighting given a       *)
(* pattern that does not compile fails, and the pattern is not stored.     *)
C9_InvalidPatternRejected ==
    /\ (last.op = "add_rule" /\ ~IsValid(last.arg))
          => (error # NoError /\ NotStored(last.arg))
    /\ last.op = CC =>
          \A i \in 1..Len(last.arg.rules) :
              (Len(last.arg.rules[i]) = 2 /\ ~IsValid(last.arg.rules[i][1]))
                  => (error # NoError /\ NotStored(last.arg.rules[i][1]))

\* rule r of the list matches nowhere in line s
MatchesNowhere(r, s) ==
    LET regex == highlighting_rules[r].regex
    IN  \/ ~IsValid(regex.pattern)
        \/ \A i \in 0..Len(s) :
              Ends(QRegularExpression[regex.pattern].re, s, i,
                   regex.caseInsensitive) = <<>>

(* C10: highlight raises nothing on any line, the empty one included, and  *)
(* a rule without a match in the line contributes no span.                 *)
C10_HighlightTotal ==
    last.op \in {"highlight", "edit"}
    => /\ error = NoError
       /\ Len(painted) = Len(text)
       /\ \A r \in 1..Len(highlighting_rules) :
             MatchesNowhere(r, text) =>
                 \A a \in 1..Len(spans) : spans[a].rule # r

\* highlight ran on the empty line with rules installed
C10_Witness ==
    /\ last.op = "highlight"
    /\ text = <<>>
    /\ Len(highlighting_rules) > 0
    /\ spans = <<>>

(* C11: set_theme, and construction, never fail; an identifier that is  *)
(* not a key of THEMES selects "light", which get_current_theme then       *)
(* returns; the current theme is always a key of THEMES.                   *)
C11_UnknownThemeFallback ==
    /\ current_theme \in DOMAIN THEMES
    /\ last.op = "set_theme" =>
          /\ error = NoError
          /\ current_theme = IF last.arg \in DOMAIN THEMES THEN last.arg
                              ELSE "light"

\* set_theme was called with an unknown identifier on a configured editor:
\* the theme is light and the formats carry light's colours
C11_Witness ==
    /\ last.op = "set_theme"
    /\ last.arg \notin DOMAIN THEMES
    /\ current_theme = "light"
    /\ configured
    /\ "keyword" \in DOMAIN formats
    /\ formats["keyword"].foreground = light_THEME["keyword"]

(* C12: a rule whose role has no entry in the format table raises nothing; *)
(* its matches are emitted as spans with the default QTextCharFormat.      *)
C12_MissingRoleUnstyled ==
    last.op \in {"highlight", "edit"}
    => /\ error = NoError
       /\ \A a \in 1..Len(spans) :
             spans[a].role \notin DOMAIN formats
                 => spans[a].format = QTextCharFormat
       /\ \A r \in 1..Len(highlighting_rules) :
             ( /\ highlighting_rules[r].format_name \notin DOMAIN formats
               /\ ~MatchesNowhere(r, text) )
             => \E a \in 1..Len(spans) : spans[a].rule = r

\* a span of positive length was emitted for a role the table lacks, and
\* its characters are unstyled
C12_Witness ==
    /\ last.op = "highlight"
    /\ \E a \in 1..Len(spans) :
          /\ spans[a].role \notin DOMAIN formats
          /\ spans[a].length > 0
          /\ spans[a].format = QTextCharFormat
          /\ painted[spans[a].start + 1] = QTextCharFormat

(* C13: every theme of THEMES, the current one included, has a colour for  *)
(* each of the 15 roles configure_papyrus_highlighting reads and for       *)
(* background, so configuring the profile never misses a role.             *)
C13_ThemesComplete ==
    \A t \in DOMAIN THEMES \cup {current_theme} :
        /\ t = current_theme /\ mode = "papyrus" /\ last.op \in {CP, "set_theme"}
              => /\ error = NoError
                 /\ \A n \in ProfileRoles :
                       n \in DOMAIN formats
                       /\ formats[n].foreground = THEMES[t][n]
        /\ ProfileRoles \cup {"background"} \subseteq DOMAIN THEMES[t]
        /\ {PapyrusFormats(THEMES[t])[i].name :
                i \in 1..Len(PapyrusFormats(THEMES[t]))} = ProfileRoles
        /\ \A i \in 1..Len(PapyrusFormats(THEMES[t])) :
              PapyrusFormats(THEMES[t])[i].foreground
                  = THEMES[t][PapyrusFormats(THEMES[t])[i].name]

\* the profile was configured under the dark theme and every role has its
\* colour
C13_Witness ==
    /\ last.op \in {CP, "set_theme"}
    /\ mode = "papyrus"
    /\ current_theme = "dark"
    /\ DOMAIN formats = ProfileRoles
    /\ \A n \in ProfileRoles : formats[n].foreground = dark_THEME[n]

\* where each span lies and which rule and role it has
Geometry(sp) ==
    [a \in 1..Len(sp) |-> <<sp[a].rule, sp[a].start, sp[a].length, sp[a].role>>]

\* every span of a profile role has the colour theme t gives the role
Coloured(sp, t) ==
    \A a \in 1..Len(sp) : sp[a].format.foreground = THEMES[t][sp[a].role]

(* C14: under the language profile set_theme changes no span's offset,     *)
(* length or role; the spans' colours are the old theme's before and the   *)
(* new theme's after.                                                      *)
C14_ThemeChangesStylesOnly ==
    [][(mode = "papyrus" /\ last'.op = "set_theme")
       => /\ Geometry(spans') = Geometry(spans)
          /\ Coloured(spans, current_theme)
          /\ Coloured(spans', current_theme')]_vars

\* set_theme("dark") ran under the profile and the keyword span of
\* scriptname has dark's keyword colour, which is not light's
C14_Witness ==
    /\ last.op = "set_theme"
    /\ last.arg = "dark"
    /\ mode = "papyrus"
    /\ text = scriptname_line
    /\ dark_THEME["keyword"] # light_THEME["keyword"]
    /\ \E a \in 1..Len(spans) :
          /\ spans[a].role = "keyword"
          /\ spans[a].start = 0 /\ spans[a].length = 10
          /\ spans[a].format.foreground = dark_THEME["keyword"]

(* C15: add_format(name, ...) leaves the table with name mapped to the     *)
(* style of this call alone, every other role as it was, and the rule list *)
(* unchanged.                                                              *)
C15_AddFormatOverwrites ==
    [][last'.op = "add_format"
       => LET f == last'.arg
          IN  /\ DOMAIN formats' = DOMAIN formats \cup {f.name}
              /\ formats'[f.name] =
                     [foreground |-> IF f.foreground \in {None, ""} THEN None
                                     ELSE f.foreground,
                      background |-> IF f.background \in {None, ""} THEN None
                                     ELSE f.background,
                      bold |-> f.bold, italic |-> f.italic]
              /\ \A n \in DOMAIN formats \ {f.name} : formats'[n] = formats[n]
              /\ highlighting_rules' = highlighting_rules]_vars

\* add_format("comment", background=...) replaced the italic comment style
\* the profile had registered; the string role kept its style
C15_Witness ==
    /\ last.op = "add_format"
    /\ prev = CP
    /\ DOMAIN formats = ProfileRoles
    /\ formats["comment"] = [foreground |-> None, background |-> "#444444",
                              bold |-> FALSE, italic |-> FALSE]
    /\ formats["string"].foreground = THEMES[current_theme]["string"]

\* the offset of the first character c of line s
FirstOffset(s, c) == (CHOOSE k \in 1..Len(s) : s[k] = c /\ \A j \in 1..(k - 1) : s[j] # c) - 1

(* C16: under the profile a line with a ; has exactly one span of the      *)
(* line-comment rule, from the first ; to the end of the line, tagged      *)
(* comment; the line "; comment text" has this span and no other.          *)
C16_LineComment ==
    mode = "papyrus"
    => /\ (\E k \in 1..Len(text) : text[k] = ";")
             => \E a \in 1..Len(spans) :
                   /\ spans[a].pattern = line_comment
                   /\ spans[a].role = "comment"
                   /\ spans[a].start = FirstOffset(text, ";")
                   /\ spans[a].start + spans[a].length = Len(text)
                   /\ \A b \in 1..Len(spans) :
                         spans[b].pattern = line_comment => b = a
       /\ text = comment_line
             => /\ Len(spans) = 1
                /\ spans[1].start = 0
                /\ spans[1].length = Len(comment_line)
                /\ spans[1].role = "comment"

\* the profile highlighted a line with code before the ;
C16_Witness ==
    /\ mode = "papyrus"
    /\ text = code_comment_line
    /\ \E a \in 1..Len(spans) :
          spans[a].role = "comment" /\ spans[a].start = 2 /\ spans[a].length = 2

\* the role of the last setFormat call that covers offset k, or "none"
FinalRole(k) ==
    LET covering == {a \in 1..Len(spans) : Covers(spans[a], k)}
    IN  IF covering = {} THEN "none"
        ELSE spans[CHOOSE a \in covering : \A b \in covering : b <= a].role

\* the offset of the first character at or after offset k that is no space
SkipSpaces(s, k) ==
    CHOOSE j \in k..Len(s) :
        /\ \A i \in k..(j - 1) : s[i + 1] \in SpaceChars
        /\ j < Len(s) => s[j + 1] \notin SpaceChars

(* C17: under the profile a function span covers an identifier that        *)
(* whitespace and ( follow, a string span begins and ends with a quote,    *)
(* and in Foo("bar") Foo ends with role function and "bar" with string.    *)
C17_FunctionAndString ==
    mode = "papyrus"
    => /\ \A a \in 1..Len(spans) :
             spans[a].role = "function"
             => /\ spans[a].length > 0
                /\ \A k \in spans[a].start..(spans[a].start + spans[a].length - 1) :
                      text[k + 1] \in WordChars
                /\ LET j == SkipSpaces(text, spans[a].start + spans[a].length)
                   IN  j < Len(text) /\ text[j + 1] = "("
       /\ \A a \in 1..Len(spans) :
             spans[a].role = "string"
             => /\ spans[a].length >= 2
                /\ text[spans[a].start + 1] = "\""
                /\ text[spans[a].start + spans[a].length] = "\""
       /\ text = call_line
             => /\ \E a \in 1..Len(spans) :
                      /\ spans[a].role = "function"
                      /\ spans[a].start = 0 /\ spans[a].length = 3
                /\ \E a \in 1..Len(spans) :
                      /\ spans[a].role = "string"
                      /\ spans[a].start = 4 /\ spans[a].length = 5
                /\ \A k \in 0..2 : FinalRole(k) = "function"
                /\ \A k \in 4..8 : FinalRole(k) = "string"

\* the profile highlighted Foo("bar")
C17_Witness ==
    /\ mode = "papyrus"
    /\ text = call_line
    /\ FinalRole(0) = "function"
    /\ FinalRole(4) = "string"
    /\ FinalRole(3) = "operator"

(* C18, as claimed: under the profile, in                                  *)
(* "scriptname MyScript extends Quest" MyScript has a span tagged class    *)
(* and ends with role class; scriptname and extends end with keyword.      *)
C18_ScriptName ==
    (mode = "papyrus" /\ text = scriptname_line)
    => /\ \E a \in 1..Len(spans) :
             /\ spans[a].role = "class"
             /\ spans[a].start = 11 /\ spans[a].length = 8
       /\ \A k \in 11..18 : FinalRole(k) = "class"
       /\ \A k \in 0..9 : FinalRole(k) = "keyword"
       /\ \A k \in 20..26 : FinalRole(k) = "keyword"

(* C19: highlightBlock run again after the blocks around the block changed *)
(* gives the block the same spans and formats; editing those blocks leaves *)
(* them as they are.                                                       *)
C19_LineLocal ==
    [][ /\ last'.op = "edit_neighbours"
           => (spans' = spans /\ painted' = painted)
        /\ (last.op = "edit_neighbours" /\ last'.op = "highlight")
           => (spans' = spans /\ painted' = painted) ]_vars

\* the block was highlighted again between a block that opens a block
\* comment and one that closes it, and no span of it is a comment
C19_Witness ==
    /\ last.op = "highlight"
    /\ prev = "edit_neighbours"
    /\ neighbours.before = <<";", "/", " ", "a">>
    /\ neighbours.after = <<"b", " ", "/", ";">>
    /\ mode = "papyrus"
    /\ text = call_line
    /\ Len(spans) = 4
    /\ \A a \in 1..Len(spans) : spans[a].role # "comment"

(* C20, as claimed: spans come rule by rule in registration order, and     *)
(* within a rule in strictly increasing start offset, without overlap.     *)
C20_StrictlyIncreasing ==
    \A a, b \in 1..Len(spans) :
        a < b => /\ spans[a].rule <= spans[b].rule
                 /\ spans[a].rule = spans[b].rule
                       => /\ spans[a].start < spans[b].start
                          /\ spans[a].start + spans[a].length <= spans[b].start

(* C20, amended: spans come rule by rule in registration order, and within *)
(* a rule in non-decreasing start offset, without overlap; two spans of a  *)
(* rule start at the same offset only when the first is empty and the      *)
(* second is not.                                                          *)
C20_EmissionOrder ==
    \A a, b \in 1..Len(spans) :
        a < b => /\ spans[a].rule <= spans[b].rule
                 /\ spans[a].rule = spans[b].rule
                       => /\ spans[a].start <= spans[b].start
                          /\ spans[a].start + spans[a].length <= spans[b].start
                          /\ spans[a].start = spans[b].start
                                => (spans[a].length = 0 /\ spans[b].length > 0)

\* the rule o*? emitted an empty span and then a span of one character at
\* the same offset
C20_Witness ==
    \E a \in 1..(Len(spans) - 1) :
        /\ spans[a].pattern = lazy_os /\ spans[a + 1].pattern = lazy_os
        /\ spans[a].start = spans[a + 1].start
        /\ spans[a].length = 0
        /\ spans[a + 1].length = 1


---------------------------------------------------------------------------
(* C21: after configure_papyrus_highlighting the rule list holds, in this  *)
(* order, the rules operator, flow_control, type, keyword, keyword2,       *)
(* fold_open, fold_middle, fold_close, line comment, block comment,        *)
(* documentation comment, number, string, function, class, property, and   *)
(* the format table holds exactly the fifteen roles.                       *)
C21_ProfileOrder ==
    (mode = "papyrus" /\ added = 0)
    => /\ [i \in 1..Len(highlighting_rules) |->
             <<highlighting_rules[i].regex.pattern,
               highlighting_rules[i].format_name>>]
          = << <<operators, "operator">>, <<flow_control, "flow_control">>,
               <<types, "type">>, <<keywords, "keyword">>,
               <<constants, "keyword2">>, <<fold_open, "fold_open">>,
               <<fold_middle, "fold_middle">>, <<fold_close, "fold_close">>,
               <<line_comment, "comment">>, <<block_comment, "comment">>,
               <<doc_comment, "comment">>, <<numbers, "number">>,
               <<strings, "string">>, <<function_calls, "function">>,
               <<script_name, "class">>, <<property_names, "property">> >>
       /\ DOMAIN formats =
             {"default", "operator", "flow_control", "type", "keyword",
              "keyword2", "fold_open", "fold_middle", "fold_close",
              "comment", "number", "string", "property", "class",
              "function"}
       /\ Cardinality(DOMAIN formats) = 15

\* the profile has just been configured: sixteen rules, the line comment
\* ninth and the class rule fifteenth
C21_Witness ==
    /\ last.op = CP
    /\ Len(highlighting_rules) = 16
    /\ highlighting_rules[9].regex.pattern = line_comment
    /\ highlighting_rules[15].format_name = "class"

(* C23: a newly constructed editor has an empty rule list and an empty     *)
(* format table; until configure_papyrus_highlighting is first called,     *)
(* set_theme leaves both empty and highlight returns no span.              *)
C23_NoRulesBeforeConfigure ==
    /\ (last.op = "__init__"
           => /\ highlighting_rules = <<>>
              /\ DOMAIN formats = {}
              /\ spans = <<>>
              /\ ~configured)
    /\ [][( /\ ~configured
            /\ highlighting_rules = <<>>
            /\ DOMAIN formats = {}
            /\ last'.op \in {"set_theme", "highlight", "edit"} )
          => ( /\ highlighting_rules' = <<>>
               /\ DOMAIN formats' = {}
               /\ spans' = <<>>
               /\ painted' = [k \in 1..Len(text') |-> QTextCharFormat]
               /\ ~configured' )]_vars

\* a line was highlighted right after a set_theme call on an editor whose
\* profile was never configured
C23_Witness ==
    /\ last.op \in {"highlight", "edit"}
    /\ prev = "set_theme"
    /\ ~configured
    /\ text # <<>>
    /\ highlighting_rules = <<>>
    /\ spans = <<>>

C25_FormatsFollowTheme ==
    (mode = "papyrus" /\ added = 0)
    => \A r \in DOMAIN formats :
          /\ formats[r].foreground = THEMES[current_theme][r]
          /\ formats[r].italic <=> (r = "comment")
          /\ formats[r].bold <=> (r = "property")

\* the theme was changed to dark on a configured editor: the keyword role
\* has dark's colour, which is not light's
C25_Witness ==
    /\ last.op = "set_theme"
    /\ last.arg = "dark"
    /\ mode = "papyrus"
    /\ formats["keyword"].foreground = dark_THEME["keyword"]
    /\ formats["keyword"].foreground # light_THEME["keyword"]
    /\ formats["comment"].italic
    /\ formats["property"].bold

\* the entries of a rules argument that come before the first one that is
\* not a pair
BeforeFailure(entries) ==
    LET bad == {i \in 1..Len(entries) : Len(entries[i]) # 2}
    IN  IF bad = {} THEN entries
        ELSE SubSeq(entries, 1, (CHOOSE i \in bad : \A j \in bad : i <= j) - 1)

(* C29: configure_custom_highlighting that raises partway leaves the rule  *)
(* list with only the entries installed before the failure and the format  *)
(* table with the supplied formats; the previous configuration is gone and *)
(* the document is not re-highlighted.                                     *)
C29_NotAtomic ==
    [][(last'.op = CC /\ error' # NoError)
       => /\ Len(highlighting_rules') = Len(BeforeFailure(last'.arg.rules))
          /\ \A i \in 1..Len(highlighting_rules') :
                /\ highlighting_rules'[i].regex.pattern = last'.arg.rules[i][1]
                /\ highlighting_rules'[i].format_name = last'.arg.rules[i][2]
          /\ DOMAIN formats' = DOMAIN last'.arg.formats
          /\ spans' = spans
          /\ painted' = painted ]_vars

\* the call failed on its second entry right after the profile was
\* configured: one rule is installed, the profile's sixteen are gone and
\* the line still shows the profile's spans
C29_Witness ==
    /\ last.op = CC
    /\ error = "ValueError"
    /\ prev = CP
    /\ Len(highlighting_rules) = 1
    /\ highlighting_rules[1].regex.pattern = word_foo
    /\ DOMAIN formats = {"c1", "c2"}
    /\ \E a \in 1..Len(spans) : spans[a].role \notin DOMAIN formats

(* C22: no operation of the editor or of its highlighter (construction,    *)
(* set_theme, configure_papyrus_highlighting, configure_custom_            *)
(* highlighting, add_format, add_rule, highlight, get_available_themes)    *)
(* modifies the theme registry.                                            *)
C22_ThemesImmutable ==
    /\ themes = THEMES
    /\ last.op = "get_available_themes"
          => last.arg = <<"light", "dark", "nord", "monokai">>

\* the theme names were asked for after set_theme was called with an
\* unknown identifier on a configured editor
C22_Witness ==
    /\ last.op = "get_available_themes"
    /\ prev = "set_theme"
    /\ configured
    /\ current_theme = "light"
    /\ Len(last.arg) = 4
    /\ themes = THEMES

C26_FlowControlOverridden ==
    mode = "papyrus"
    => /\ \A k \in 0..(Len(text) - 1) : FinalRole(k) # "flow_control"
       /\ \A a \in 1..Len(spans) :
             spans[a].role = "flow_control"
             => \E b \in 1..Len(spans) :
                   /\ spans[b].rule > spans[a].rule
                   /\ spans[b].role \in {"fold_open", "fold_middle", "fold_close"}
                   /\ spans[b].start = spans[a].start
                   /\ spans[b].length = spans[a].length

\* the profile highlighted "If elseif ELSE": three flow_control spans, and
\* the words end with the roles fold_open, fold_middle and fold_middle
C26_Witness ==
    /\ mode = "papyrus"
    /\ text = branch_line
    /\ Cardinality({a \in 1..Len(spans) : spans[a].role = "flow_control"}) = 3
    /\ FinalRole(0) = "fold_open"
    /\ FinalRole(3) = "fold_middle"
    /\ FinalRole(10) = "fold_middle"

(* C27, as claimed: under the profile the characters inside a ; comment    *)
(* that a later rule also matches (a number, a string, an identifier       *)
(* before a parenthesis, an identifier after scriptname or property) end   *)
(* with that rule's role, and a keyword that a parenthesis follows ends    *)
(* with the role function.                                                 *)
C27_LaterRulesOverrideComments ==
    mode = "papyrus"
    => /\ text = commented_code_line
             => /\ FinalRole(0) = "comment"
                /\ FinalRole(1) = "number"
                /\ \A k \in 3..5 : FinalRole(k) = "string"
                /\ FinalRole(7) = "function"
                /\ FinalRole(9) = "number"
       /\ text = condition_line
             => \A k \in 0..1 : FinalRole(k) = "function"
       /\ text = commented_property_line
             => FinalRole(10) = "property"
       /\ text = commented_scriptname_line
             => FinalRole(12) = "class"

\* the text of a line in lower case and in upper case
ToLower(s) ==
    [k \in 1..Len(s) |->
        IF \E j \in 1..26 : UpperCase[j] = s[k] THEN OtherCase(s[k]) ELSE s[k]]
ToUpper(s) ==
    [k \in 1..Len(s) |->
        IF \E j \in 1..26 : LowerCase[j] = s[k] THEN OtherCase(s[k]) ELSE s[k]]

(* C28: every rule registered through add_rule matches without regard to   *)
(* letter case: a line and the lines that differ from it only in letter    *)
(* case get the same spans (same rules, offsets, lengths and roles).       *)
C28_CaseInsensitive ==
    LET Same(lower, upper) ==
            /\ Geometry(spans) = Geometry(lower.spans)
            /\ Geometry(spans) = Geometry(upper.spans)
    IN  Same(highlightBlock(highlighting_rules, formats, ToLower(text)),
             highlightBlock(highlighting_rules, formats, ToUpper(text)))

\* the profile highlighted "If elseif ELSE", whose lower-case and upper-case
\* spellings both differ from it, and If has its flow_control span
C28_Witness ==
    /\ mode = "papyrus"
    /\ text = branch_line
    /\ ToLower(text) # text
    /\ ToUpper(text) # text
    /\ \E a \in 1..Len(spans) :
          /\ spans[a].role = "flow_control"
          /\ spans[a].start = 0
          /\ spans[a].length = 2
=============================================================================
